---- MODULE Spec2Model ----
(***************************************************************************)
(* A model of the traversal engine of temenos_svg_crawler.py:              *)
(*   - crawl_entire_site          (Strategy B, sitewide breadth-first)     *)
(*   - crawl_library_recursively  (Strategy C, library breadth-first)      *)
(*   - run_sample_crawl / run_full_crawl / crawl_section (Strategy A)      *)
(* together with extract_all_svgs_from_page, is_process_map_svg,           *)
(* save_svg_file and save_crawl_log, which every strategy funnels into.    *)
(*                                                                         *)
(* The browser (Selenium) is the environment: what a page shows (its SVG   *)
(* fragments, its links, its process links) and whether a driver call      *)
(* raises are inputs drawn with \E at the step that asks for them.         *)
(*                                                                         *)
(* URLs are records [host, path, frag]: the string                         *)
(* "https://<host>/<path[1]>/.../<path[n]>#<frag>".  The code compares     *)
(* URLs as raw strings, so two records are the same URL iff all three      *)
(* fields agree.  Substring and prefix tests of the code are taken at the  *)
(* granularity of whole path segments.                                     *)
(***************************************************************************)
EXTENDS Integers, Sequences, FiniteSets, TLC

VARIABLES
    strategy,        \* "B" | "C" | "sample" | "full": the method that was called
    max_pages,       \* argument of crawl_entire_site / crawl_library_recursively
    max_sections,    \* argument of run_sample_crawl (NoCap in run_full_crawl)
    max_processes,   \* max_processes_per_section (NoCap = None in run_full_crawl)
    pc,              \* position of the running strategy
    result,          \* "running", or the returned value "True" / "False"
    logged_in,       \* login() has returned True
    visited,         \* local `visited` of the BFS loops
    queue,           \* local `queue` of the BFS loops
    page_count,      \* local `page_count` of the BFS loops
    url,             \* local `url`: the URL popped last
    links_left,      \* elements of local `links` the for loop has not handled yet
    extracted_count, \* self.extracted_count
    failed_count,    \* self.failed_count
    process_log,     \* self.process_log
    report,          \* content of crawl_log.json (NoReport while not written)
    report_calls,    \* number of calls of save_crawl_log
    sections,        \* local `sections` of run_sample_crawl / run_full_crawl
    sec_idx,         \* index of the section being crawled
    process_links,   \* the list the for loop of crawl_section iterates over
    proc_idx,        \* index of the process link being handled
    on_section,      \* the browser shows the page of the section being crawled
    navlog,          \* history: URLs handed to driver.get inside the loop, in order
    enqlog,          \* history: URLs put on `queue`, in order (the seed first)
    last_failed,     \* history: the visit of `url` ended in the handler of line 555 / 636
    sec_clicks,      \* history: number of sections activated (clicked)
    proc_clicks,     \* history: process links activated in the current section
    attempts,        \* history: section and process pages handed to extract_all_svgs_from_page
    disk,            \* files under output_dir: path -> content (tracked by SpecStore only)
    saved,           \* history: path -> payload of the last successful save_svg_file to it
    call,            \* the last call of a component function: its name, arguments and result
    exit_code,       \* exit status of the command-line process (NoExit while it runs)
    driver,          \* self.driver: "None", or the WebDriver, "open" or "quit"
    quit_calls       \* history: calls of self.driver.quit()

inputVars == <<strategy, max_pages, max_sections, max_processes>>
bfsVars   == <<visited, queue, page_count, url, links_left>>
storeVars == <<extracted_count, failed_count, process_log>>
repVars   == <<report, report_calls>>
drillVars == <<sections, sec_idx, process_links, proc_idx, on_section>>
bfsHist   == <<navlog, enqlog, last_failed>>
drillHist == <<sec_clicks, proc_clicks>>
compVars  == <<disk, saved, call, exit_code>>
sessVars  == <<driver, quit_calls>>
vars == <<inputVars, pc, result, logged_in, bfsVars, storeVars, repVars, drillVars,
          bfsHist, drillHist, attempts, compVars, sessVars>>

(***************************************************************************)
(* Bounds of the model.                                                    *)
(***************************************************************************)
MaxPagesBound == 2     \* max_pages ranges over 0..MaxPagesBound
MaxLinks == 2          \* <a> elements on one page
MaxSvgs == 1           \* <svg> fragments on one page
MaxSectionsFound == 3  \* sections get_main_sections can return
MaxProcLinks == 2      \* process links on one section page
MaxCap == 2            \* the caps of run_sample_crawl range over 0..MaxCap
MaxCalls == 3          \* calls of save_svg_file in a row
MaxRuns == 3           \* runs of one character in an argument of sanitize_filename
MaxDim == 301          \* largest width / height number of a fragment
MaxDesc == 21          \* largest number of descendants of a fragment's root
MaxCrumbs == 3         \* items of a breadcrumb list
MaxPageLinks == 3      \* <a> elements on the first page of Strategy C
MaxFrags == 3          \* <svg> elements on a page given to extract_svg_from_page

(***************************************************************************)
(* URLs.                                                                   *)
(***************************************************************************)
BaseHost == "tlcengine.temenos.com"

Url(h, p, f) == [host |-> h, path |-> p, frag |-> f]

\* A missing href (None or ""): falsy in the code.
NoHref == Url("", <<>>, "")

BaseUrl  == Url(BaseHost, <<>>, "")
LibUrl   == Url(BaseHost, <<"Library">>, "")
LibFrag  == Url(BaseHost, <<"Library">>, "top")
ProcUrl  == Url(BaseHost, <<"Content", "Index">>, "")
AboutUrl == Url(BaseHost, <<"about">>, "")
ExtUrl   == Url("example.org", <<"Library">>, "")
\* A page below AboutUrl, for the prefix test of Strategy C.
AboutTeam == Url(BaseHost, <<"about", "team">>, "")

SiteUrls == {BaseUrl, LibUrl, LibFrag, ProcUrl, AboutUrl, ExtUrl}
Hrefs == SiteUrls \cup {NoHref}

\* driver.current_url when the loop is seeded.
SeedUrls == {BaseUrl, LibUrl}

\* urlparse(href).netloc
Netloc(u) == u.host

\* "/Library" in href or "/Content/" in href
HasMarker(u) ==
    \/ \E i \in 1..Len(u.path) : u.path[i] = "Library"
    \/ \E i \in 1..(Len(u.path) - 1) : u.path[i] = "Content"

\* href.startswith(p), on segments: a string with a fragment is a prefix of
\* itself only.
StartsWith(href, p) ==
    /\ href.host = p.host
    /\ IF p.frag = ""
       THEN /\ Len(p.path) <= Len(href.path)
            /\ SubSeq(href.path, 1, Len(p.path)) = p.path
       ELSE href.path = p.path /\ href.frag = p.frag

(***************************************************************************)
(* Sequences.                                                              *)
(***************************************************************************)
InSeq(x, s) == \E i \in 1..Len(s) : s[i] = x

NoDup(s) == \A i, j \in 1..Len(s) : s[i] = s[j] => i = j

SeqsUpTo(S, n) == UNION {[1..k -> S] : k \in 0..n}

RECURSIVE CountTrue(_)
CountTrue(s) ==
    IF s = <<>> THEN 0
    ELSE (IF Head(s) THEN 1 ELSE 0) + CountTrue(Tail(s))

(***************************************************************************)
(* Strings.  A string is a sequence of runs [c, n]: the character c        *)
(* repeated n >= 1 times, neighbouring runs holding different characters,  *)
(* so that a 200-character string is a short sequence.                     *)
(***************************************************************************)
Run(c, n) == [c |-> c, n |-> n]

\* The string of a sequence of runs: empty runs dropped, neighbours merged.
RECURSIVE Norm(_)
Norm(s) ==
    IF s = <<>> THEN <<>>
    ELSE LET h == Head(s)
             r == Norm(Tail(s))
         IN  IF h.n = 0 THEN r
             ELSE IF r # <<>> /\ r[1].c = h.c
                  THEN <<Run(h.c, h.n + r[1].n)>> \o Tail(r)
                  ELSE <<h>> \o r

\* The string literal made of the characters of t.
Str(t) == Norm([i \in DOMAIN t |-> Run(t[i], 1)])

\* a + b
Concat(a, b) == Norm(a \o b)

\* len(s)
RECURSIVE StrLen(_)
StrLen(s) == IF s = <<>> THEN 0 ELSE Head(s).n + StrLen(Tail(s))

\* s[:k]
RECURSIVE Take(_, _)
Take(s, k) ==
    IF s = <<>> \/ k <= 0 THEN <<>>
    ELSE IF Head(s).n >= k THEN <<Run(Head(s).c, k)>>
         ELSE <<Head(s)>> \o Take(Tail(s), k - Head(s).n)

\* s[k:]
RECURSIVE Drop(_, _)
Drop(s, k) ==
    IF s = <<>> THEN <<>>
    ELSE IF k <= 0 THEN s
         ELSE IF Head(s).n > k
              THEN <<Run(Head(s).c, Head(s).n - k)>> \o Tail(s)
              ELSE Drop(Tail(s), k - Head(s).n)

\* s.endswith(t)
EndsWith(s, t) ==
    StrLen(s) >= StrLen(t) /\ Drop(s, StrLen(s) - StrLen(t)) = t

\* some character of s is in the set chars
HasChar(s, chars) == \E i \in DOMAIN s : s[i].c \in chars

(***************************************************************************)
(* sanitize_filename.                                                      *)
(***************************************************************************)
\* The character class [<>:"/\\|?*] of line 304.
Illegal == {"<", ">", ":", "\"", "/", "\\", "|", "?", "*"}

\* Characters matched by \s (the ones the model's strings use).
Whitespace == {" ", "\n"}

\* Variant of re_sub_illegal: the class without the two slashes.
re_sub_illegal_NoSlash(s) ==
    Norm([i \in DOMAIN s |->
            IF s[i].c \in Illegal \ {"/", "\\"} THEN Run("_", s[i].n) ELSE s[i]])

\* re.sub(r'[<>:"/\\|?*]', '_', filename): each character replaced by one "_".
re_sub_illegal(s) ==
    Norm([i \in DOMAIN s |->
            IF s[i].c \in Illegal THEN Run("_", s[i].n) ELSE s[i]])

\* re.sub(r'\s+', '_', filename): each maximal run of whitespace
\* characters, of whatever mix, replaced by a single "_".
re_sub_whitespace(s) ==
    LET ws == Norm([i \in DOMAIN s |->
                      IF s[i].c \in Whitespace THEN Run(" ", s[i].n) ELSE s[i]])
    IN  Norm([i \in DOMAIN ws |->
                IF ws[i].c = " " THEN Run("_", 1) ELSE ws[i]])

\* s.strip(chars)
strip(s, chars) ==
    LET keep == {i \in DOMAIN s : s[i].c \notin chars}
    IN  IF keep = {} THEN <<>>
        ELSE SubSeq(s, CHOOSE i \in keep : \A j \in keep : i <= j,
                       CHOOSE i \in keep : \A j \in keep : i >= j)

\* The length limit of line 307.
NameLimit == 200

sanitize_filename(filename) ==
    Take(strip(re_sub_whitespace(re_sub_illegal(filename)), {".", "_"}),
         NameLimit)

(***************************************************************************)
(* parse_section_from_breadcrumb (test_breadcrumb_structure.py).           *)
(***************************************************************************)
\* Characters matched by \d (the ones the model's strings use).
Digits == {"0", "1", "2", "3", "4", "5", "6", "7", "8", "9"}

\* The number of leading runs of s whose character is in chars ...
RECURSIVE LeadRuns(_, _)
LeadRuns(s, chars) ==
    IF s = <<>> \/ Head(s).c \notin chars THEN 0
    ELSE 1 + LeadRuns(Tail(s), chars)

\* ... and of those whose character is not.
RECURSIVE LeadRunsNot(_, _)
LeadRunsNot(s, chars) ==
    IF s = <<>> \/ Head(s).c \in chars THEN 0
    ELSE 1 + LeadRunsNot(Tail(s), chars)

\* s.replace(c, d) for single characters c and d
replace_char(s, c, d) ==
    Norm([i \in DOMAIN s |-> IF s[i].c = c THEN Run(d, s[i].n) ELSE s[i]])

\* s.replace(c, '')
remove_char(s, c) ==
    Norm([i \in DOMAIN s |-> IF s[i].c = c THEN Run(c, 0) ELSE s[i]])

\* t in s
Contains(s, t) ==
    \E k \in 0..(StrLen(s) - StrLen(t)) : Take(Drop(s, k), StrLen(t)) = t

\* re.search(r'(\d+)', s).group(1): the leftmost maximal digit sequence,
\* <<>> when there is no match.
search_digits(s) ==
    LET t == SubSeq(s, LeadRunsNot(s, Digits) + 1, Len(s))
    IN  SubSeq(t, 1, LeadRuns(t, Digits))

NoMatch == [matched |-> FALSE, num |-> <<>>, name |-> <<>>]

\* re.match(r'^(\d+)\.\s+(.+)$', item.strip()): digits, one period,
\* whitespace (\s+ is greedy and (.+) cannot give a newline back), then the
\* rest, which `.` matches only if it holds no newline.
match_numbered(item) ==
    LET s == strip(item, Whitespace)
        k == LeadRuns(s, Digits)
        r == SubSeq(s, k + 1, Len(s))
    IN  IF k >= 1 /\ Len(r) >= 2 /\ r[1] = Run(".", 1)
           /\ r[2].c \in Whitespace
        THEN LET name == SubSeq(r, 2 + LeadRuns(Tail(r), Whitespace), Len(r))
             IN  IF name # <<>> /\ ~HasChar(name, {"\n"})
                 THEN [matched |-> TRUE, num |-> SubSeq(s, 1, k),
                       name |-> name]
                 ELSE NoMatch
        ELSE NoMatch

\* None as the second component of the result: no string has an empty run.
NoSectionName == <<Run("None", 0)>>

Library == Str(<<"L", "i", "b", "r", "a", "r", "y">>)

Processes == Str(<<"P", "r", "o", "c", "e", "s", "s", "e", "s">>)

\* Variant of too_short: a single numbered label is long enough.
too_short_UnlessNumbered(breadcrumb_list) ==
    \/ Len(breadcrumb_list) < 1
    \/ /\ Len(breadcrumb_list) = 1
       /\ ~match_numbered(breadcrumb_list[1]).matched

\* not breadcrumb_list or len(breadcrumb_list) < 2  (line 22)
too_short(breadcrumb_list) == Len(breadcrumb_list) < 2

\* Variant of first_match: the last matching item wins.
first_match_Last(hits) == CHOOSE i \in hits : \A j \in hits : i >= j

\* The for loop of lines 26-34 returns at the first item that matches.
first_match(hits) == CHOOSE i \in hits : \A j \in hits : i <= j

\* Variant of second_item: the first item of the list.
second_item_First(breadcrumb_list) == breadcrumb_list[1]

\* breadcrumb_list[1]  (line 38; TLA+ sequences start at 1)
second_item(breadcrumb_list) == breadcrumb_list[2]

\* The pair (folder_name, section_name).
parse_section_from_breadcrumb(breadcrumb_list) ==
    IF too_short(breadcrumb_list) THEN <<Library, NoSectionName>>
    ELSE LET hits == {i \in DOMAIN breadcrumb_list :
                         match_numbered(breadcrumb_list[i]).matched}
         IN  IF hits # {}
             THEN LET match == match_numbered(
                                  breadcrumb_list[first_match(hits)])
                      section_num == match.num
                      section_name == match.name
                  IN  <<Concat(Concat(section_num, Str(<<"_">>)),
                               replace_char(section_name, " ", "_")),
                        section_name>>
             ELSE LET section_text == second_item(breadcrumb_list)
                      clean == remove_char(
                                  replace_char(section_text, " ", "_"), ".")
                      section_num == search_digits(section_text)
                  IN  IF Contains(section_text, Processes)
                         /\ section_num # <<>>
                      THEN <<Concat(Concat(section_num, Str(<<"_">>)), clean),
                             section_text>>
                      ELSE <<clean, section_text>>

(***************************************************************************)
(* is_process_map_svg.  A fragment is [parses, width, height, desc]:       *)
(* whether ET.fromstring accepts it, the root's width and height           *)
(* attributes and the number of descendants of the root.  An attribute is  *)
(* [num, tenths, unit]: the decimal number num.tenths followed by unit;    *)
(* unit "none" is a missing attribute, "" a bare number.                   *)
(***************************************************************************)
DimF(n, t, u) == [num |-> n, tenths |-> t, unit |-> u]

Dim(n, u) == DimF(n, 0, u)

\* Variant of parse_dim: no replace('px', ''), only bare numbers convert.
parse_dim_NoPx(val) ==
    IF val.unit = "" THEN val.num ELSE 0

\* int(float(val.replace('px', ''))), 0 when that raises: float() accepts
\* the text left after "px" is removed only if it is a number, and int()
\* drops the fractional part.
parse_dim(val) ==
    IF val.unit \in {"", "px"} THEN val.num ELSE 0

\* Variant of is_process_map_svg: markup that does not parse counts as a
\* process map.
is_process_map_svg_BrokenWanted(svg) ==
    IF ~svg.parses THEN TRUE
    ELSE LET w == parse_dim(svg.width)
             h == parse_dim(svg.height)
             num_elements == svg.desc + 1
         IN  (w > 300 \/ h > 300) \/ num_elements > 20

is_process_map_svg(svg) ==
    IF ~svg.parses THEN FALSE
    ELSE LET w == parse_dim(svg.width)
             h == parse_dim(svg.height)
             num_elements == svg.desc + 1
         IN  (w > 300 \/ h > 300) \/ num_elements > 20

IconSvg   == [parses |-> TRUE, width |-> Dim(24, "px"), height |-> Dim(24, "px"), desc |-> 3]
MapSvg    == [parses |-> TRUE, width |-> Dim(800, ""), height |-> Dim(600, ""), desc |-> 5]
DenseSvg  == [parses |-> TRUE, width |-> Dim(0, "none"), height |-> Dim(0, "none"), desc |-> 25]
BrokenSvg == [parses |-> FALSE, width |-> Dim(0, "none"), height |-> Dim(0, "none"), desc |-> 0]

Fragments == {IconSvg, MapSvg, DenseSvg, BrokenSvg}

(***************************************************************************)
(* extract_svg_from_page (lines 206-244).  The page is the sequence of the *)
(* outerHTML lengths of its <svg> elements, in document order; a fragment  *)
(* is named by its place in that order and NoFragment is None.             *)
(***************************************************************************)
SizeThreshold == 1000

NoFragment == 0

\* Variant of bigger: `>=` in the script's comparison.
bigger_OrEqual(length, maxSize) == length >= maxSize

\* svg.outerHTML.length > maxSize  (line 219)
bigger(length, maxSize) == length > maxSize

\* The for loop of the script (lines 217-223) from element i on.
RECURSIVE svg_scan(_, _, _, _)
svg_scan(sizes, i, mainSvg, maxSize) ==
    IF i > Len(sizes) THEN [mainSvg |-> mainSvg, maxSize |-> maxSize]
    ELSE IF bigger(sizes[i], maxSize)
         THEN svg_scan(sizes, i + 1, i, sizes[i])
         ELSE svg_scan(sizes, i + 1, mainSvg, maxSize)

\* The value of execute_script(svg_script), lines 225-229.
svg_script(sizes) ==
    LET scan == svg_scan(sizes, 1, NoFragment, 0)
    IN  IF scan.mainSvg # NoFragment /\ scan.maxSize > SizeThreshold
        THEN scan.mainSvg
        ELSE NoFragment

\* execute_script raising is caught at line 242: None.
extract_svg_from_page(sizes, raises) ==
    IF raises THEN NoFragment ELSE svg_script(sizes)

(***************************************************************************)
(* extract_all_svgs_from_page and save_svg_file.                           *)
(***************************************************************************)
\* The fragments of svg_list that are handed to save_svg_file.
Wanted(svg_list) == SelectSeq(svg_list, is_process_map_svg)

\* What one page can show: execute_script raising (caught at line 298) is
\* the empty list, as `if svg_list` treats both alike.
PageSvgs == SeqsUpTo(Fragments, MaxSvgs)

\* Variant of extract_all_svgs_from_page: the counters are those of the
\* page, the earlier pages forgotten.
extract_all_svgs_from_page_Reset(svg_list, io) ==
    /\ extracted_count' = CountTrue(io)
    /\ failed_count' = Len(io) - CountTrue(io)
    /\ process_log' = process_log

\* save_svg_file on each wanted fragment; io[i] tells whether the i-th
\* write succeeds.  Neither touches process_log.
extract_all_svgs_from_page(svg_list, io) ==
    /\ extracted_count' = extracted_count + CountTrue(io)
    /\ failed_count' = failed_count + (Len(io) - CountTrue(io))
    /\ process_log' = process_log

SaveOutcomes(svg_list) == [1..Len(Wanted(svg_list)) -> BOOLEAN]

(***************************************************************************)
(* save_svg_file and the loop of extract_all_svgs_from_page on the files.  *)
(* A directory is the sequence of names under output_dir, a file path is   *)
(* [dir, name], the content of a file is the sequence of payloads written  *)
(* into it (<<>>: a file that was created or truncated and not written).   *)
(***************************************************************************)
\* The value save_svg_file returns when it fails.
None == [dir |-> <<"None">>, name |-> <<>>]

\* sub_section when there is none (None, the default, or ""): falsy at
\* line 290.
NoSubSection == ""

SvgExt == Str(<<".", "s", "v", "g">>)

\* section_dir / safe_filename
Path(section_dir, safe_filename) == [dir |-> section_dir, name |-> safe_filename]

\* What the file system does to one call: everything succeeds, mkdir
\* raises, open raises, or f.write raises after open has truncated the file.
IoOutcomes == {"ok", "mkdir", "open", "write"}

\* The store as a value: the files, the history of successful saves, the
\* two counters and the value returned by the last save_svg_file.
Store == [disk |-> disk, saved |-> saved,
          extracted_count |-> extracted_count,
          failed_count |-> failed_count, ret |-> None]

\* f with f[p] = v
Put(f, p, v) == [q \in (DOMAIN f) \cup {p} |-> IF q = p THEN v ELSE f[q]]

\* Variant of open_w: the file is opened in mode 'a'.
open_a(old, svg_content) == old \o <<svg_content>>

\* open(file_path, 'w') and f.write(svg_content): the old content is gone.
open_w(old, svg_content) == <<svg_content>>

\* Variant of on_save_error: the failure is not counted.
on_save_error_Uncounted(st) == [st EXCEPT !.ret = None]

\* The handler of lines 330-333.
on_save_error(st) ==
    [st EXCEPT !.failed_count = @ + 1, !.ret = None]

save_svg_file(st, svg_content, section_path, filename, io) ==
    LET safe == sanitize_filename(filename)
        safe_filename == IF EndsWith(safe, SvgExt) THEN safe
                         ELSE Concat(safe, SvgExt)
        file_path == Path(section_path, safe_filename)
        old == IF file_path \in DOMAIN st.disk THEN st.disk[file_path]
               ELSE <<>>
    IN  CASE io = "ok" ->
               [disk |-> Put(st.disk, file_path, open_w(old, svg_content)),
                saved |-> Put(st.saved, file_path, svg_content),
                extracted_count |-> st.extracted_count + 1,
                failed_count |-> st.failed_count,
                ret |-> file_path]
          [] io = "write" ->
               on_save_error([st EXCEPT !.disk = Put(st.disk, file_path, <<>>)])
          [] OTHER -> on_save_error(st)

\* The for loop of lines 286-295 from fragment idx on.  acc is
\* [st, classified, save_idx]: the store, the answers of is_process_map_svg
\* so far and the indices handed to save_svg_file; io[idx] is what the file
\* system does if fragment idx is saved.
RECURSIVE svg_loop(_, _, _, _, _, _)
svg_loop(acc, svg_list, idx, folder, filename, io) ==
    IF idx > Len(svg_list) THEN acc
    ELSE LET wanted == is_process_map_svg(svg_list[idx])
             next == IF wanted
                     THEN [st |-> save_svg_file(acc.st, svg_list[idx], folder,
                                                filename, io[idx]),
                           classified |-> Append(acc.classified, TRUE),
                           save_idx |-> Append(acc.save_idx, idx)]
                     ELSE [acc EXCEPT !.classified = Append(@, FALSE)]
         IN  svg_loop(next, svg_list, idx + 1, folder, filename, io)

(***************************************************************************)
(* Where a directory lies: `self.output_dir / section_path` (line 313),    *)
(* section_path being section_name or os.path.join(section_name,           *)
(* sub_section) (lines 289-291).  A place is the depth below output_dir    *)
(* and whether the path has left output_dir.                               *)
(***************************************************************************)
OutputDir == [depth |-> 0, outside |-> FALSE]

\* One path component: "" and "." stay, ".." goes to the parent, a name
\* goes one level down.
enter(place, component) ==
    IF component = <<>> \/ component = <<Run(".", 1)>> THEN place
    ELSE IF component = <<Run(".", 2)>>
         THEN [depth |-> place.depth - 1,
               outside |-> place.outside \/ place.depth = 0]
         ELSE [place EXCEPT !.depth = @ + 1]

\* The components of a relative path, entered one after the other from
\* run i on; component is the part of the current one read so far.
RECURSIVE descend(_, _, _, _)
descend(place, path, i, component) ==
    IF i > Len(path) THEN enter(place, component)
    ELSE IF path[i].c = "/"
         THEN descend(enter(place, component), path, i + 1, <<>>)
         ELSE descend(place, path, i + 1, Append(component, path[i]))

\* base / label, as os.path.join and pathlib join: an absolute label takes
\* the place of everything before it.
join(place, label) ==
    IF label # <<>> /\ label[1].c = "/"
    THEN [depth |-> 0, outside |-> TRUE]
    ELSE descend(place, label, 1, <<>>)

\* The place of output_dir / os.path.join(*labels).
RECURSIVE section_dir(_, _)
section_dir(place, labels) ==
    IF labels = <<>> THEN place
    ELSE section_dir(join(place, Head(labels)), Tail(labels))

(***************************************************************************)
(* save_crawl_log.                                                         *)
(***************************************************************************)
NoReport == [written |-> FALSE, extracted_count |-> 0, failed_count |-> 0,
             total_processed |-> 0, processes |-> <<>>]

\* ok: whether opening and writing crawl_log.json succeeds (a failure is
\* caught and printed).
save_crawl_log(ok) ==
    /\ report_calls' = report_calls + 1
    /\ report' = IF ok
                 THEN [written |-> TRUE,
                       extracted_count |-> extracted_count,
                       failed_count |-> failed_count,
                       total_processed |-> Len(process_log),
                       processes |-> process_log]
                 ELSE report

(***************************************************************************)
(* Initial state: a fresh TemenosSVGCrawler and one strategy call.         *)
(***************************************************************************)
\* None as a cap (max_processes=None, and no slicing in run_full_crawl).
NoCap == -1

BfsStrategies == {"B", "C"}
DrillStrategies == {"sample", "full"}

\* No component function has been called yet.
NoCall == [fn |-> "none"]

\* The process has not exited.
NoExit == -1

\* The fields of a fresh TemenosSVGCrawler and the locals of a strategy
\* that has not started.
InitObject ==
    /\ result = "running"
    /\ logged_in = FALSE
    /\ visited = {}
    /\ queue = <<>>
    /\ page_count = 0
    /\ url = NoHref
    /\ links_left = 0
    /\ extracted_count = 0
    /\ failed_count = 0
    /\ process_log = <<>>
    /\ report = NoReport
    /\ report_calls = 0
    /\ sections = 0
    /\ sec_idx = 0
    /\ process_links = 0
    /\ proc_idx = 0
    /\ on_section = FALSE
    /\ navlog = <<>>
    /\ enqlog = <<>>
    /\ last_failed = FALSE
    /\ sec_clicks = 0
    /\ proc_clicks = 0
    /\ attempts = 0
    /\ disk = <<>>
    /\ saved = <<>>
    /\ exit_code = NoExit
    /\ driver = "None"
    /\ quit_calls = 0

InitCommon ==
    /\ pc = "setup"
    /\ call = NoCall
    /\ InitObject

InitBfs ==
    /\ strategy \in BfsStrategies
    /\ max_pages \in 0..MaxPagesBound
    /\ max_sections = NoCap
    /\ max_processes = NoCap
    /\ InitCommon

InitDrill ==
    /\ strategy \in DrillStrategies
    /\ max_pages = 0
    /\ IF strategy = "sample"
       THEN max_sections \in 0..MaxCap /\ max_processes \in 0..MaxCap
       ELSE max_sections = NoCap /\ max_processes = NoCap
    /\ InitCommon

(***************************************************************************)
(* Session set-up, common to all strategies.                               *)
(***************************************************************************)
\* Variant of Finally: the clause is missing.
Finally_NoQuit == UNCHANGED sessVars

\* finally: if self.driver: self.driver.quit()  (lines 465-467, 506-508,
\* 564-566, 645-647).  self.driver keeps the object after quit().
Finally ==
    IF driver # "None"
    THEN driver' = "quit" /\ quit_calls' = quit_calls + 1
    ELSE UNCHANGED sessVars

\* A return outside the try statement.
ReturnEarly(v) == pc' = "done" /\ result' = v /\ UNCHANGED sessVars

\* A return inside the try statement: the finally clause runs.
Return(v) == pc' = "done" /\ result' = v /\ Finally

\* setup_driver(): False when the WebDriver cannot be created (self.driver
\* stays None); the strategy then returns before its try statement.
SetupDriver ==
    /\ pc = "setup"
    /\ \E ok \in BOOLEAN :
         IF ok THEN pc' = "login" /\ result' = result
                    /\ driver' = "open" /\ quit_calls' = quit_calls
         ELSE ReturnEarly("False")
    /\ UNCHANGED <<compVars, inputVars, logged_in, bfsVars, storeVars, repVars, drillVars,
                   bfsHist, drillHist, attempts>>

\* Variant of LoginFailed: the result of login() is not tested.
LoginFailed_Ignored == pc' = "seed" /\ result' = result /\ UNCHANGED sessVars

\* if not self.login(): return False  (lines 438, 479, 520, 578)
LoginFailed == Return("False")

\* login(): False when any step of the login sequence raises.
Login ==
    /\ pc = "login"
    /\ \E ok \in BOOLEAN :
         IF ok THEN pc' = "seed" /\ result' = result /\ logged_in' = TRUE
                    /\ UNCHANGED sessVars
         ELSE LoginFailed /\ logged_in' = FALSE
    /\ UNCHANGED <<compVars, inputVars, bfsVars, storeVars, repVars, drillVars,
                   bfsHist, drillHist, attempts>>

(***************************************************************************)
(* Strategies B and C: the breadth-first loops.                            *)
(***************************************************************************)
\* Lines 526-532 / 584-603: reach the start page and seed the queue.  A
\* raise here (driver.get, or waiting for the Library link) is caught by
\* the outer handler, which returns False.
Seed ==
    /\ pc = "seed"
    /\ strategy \in BfsStrategies
    /\ \/ /\ \E s \in SeedUrls :
               /\ queue' = <<s>>
               /\ enqlog' = <<s>>
          /\ visited' = {}
          /\ page_count' = 0
          /\ pc' = "loop"
          /\ UNCHANGED <<result, url, links_left, sessVars>>
       \/ /\ Return("False")
          /\ UNCHANGED <<bfsVars, enqlog>>
    /\ UNCHANGED <<compVars, inputVars, logged_in, storeVars, repVars, drillVars,
                   navlog, last_failed, drillHist, attempts>>

\* Variant of LoopCond: `while len(queue) > 1 and ...` leaves the last
\* entry unvisited.
LoopCond_OffByOne == Len(queue) > 1 /\ page_count < max_pages

\* while queue and page_count < max_pages
LoopCond == queue # <<>> /\ page_count < max_pages

\* Variant of PopIndex: queue.pop() takes the newest entry (depth-first).
PopIndex_Last(q) == Len(q)

\* queue.pop(0): the index that is popped (TLA+ sequences start at 1) ...
PopIndex(q) == 1

\* Variant of RemoveAt: queue[0] is read but not removed.
RemoveAt_Keep(q, i) == q

\* ... and the queue without it.
RemoveAt(q, i) == SubSeq(q, 1, i - 1) \o SubSeq(q, i + 1, Len(q))

\* Lines 534-537 / 605-608: pop, skip a visited URL, else mark it visited.
Pop ==
    /\ pc = "loop"
    /\ strategy \in BfsStrategies
    /\ LoopCond
    /\ url' = queue[PopIndex(queue)]
    /\ queue' = RemoveAt(queue, PopIndex(queue))
    /\ IF url' \in visited
       THEN pc' = "loop" /\ visited' = visited
       ELSE pc' = "get" /\ visited' = visited \cup {url'}
    /\ UNCHANGED <<compVars, sessVars, inputVars, logged_in, result, page_count, links_left,
                   storeVars, repVars, drillVars, bfsHist, drillHist, attempts>>

\* Variant of OnVisitError: `break` in place of `continue`.
OnVisitError_Break ==
    /\ pc' = "report"
    /\ last_failed' = TRUE

\* The handler of line 555 / 636: print, then `continue`.  The visit is
\* over; queue, visited and page_count are as the try block left them.
OnVisitError ==
    /\ pc' = "loop"
    /\ last_failed' = TRUE

\* driver.get(url), driver.title and, in Strategy C, reading the
\* breadcrumb: any of them raising ends the visit in the handler of line
\* 555 / 636, which only prints and continues.
Navigate ==
    /\ pc = "get"
    /\ navlog' = Append(navlog, url)
    /\ \E ok \in BOOLEAN :
         IF ok THEN pc' = "extract" /\ last_failed' = FALSE
         ELSE OnVisitError
    /\ UNCHANGED <<compVars, sessVars, inputVars, logged_in, result, bfsVars, storeVars, repVars,
                   drillVars, enqlog, drillHist, attempts>>

\* Line 543 / 618: extract_all_svgs_from_page on the landed page.
ExtractPage ==
    /\ pc = "extract"
    /\ \E svg_list \in PageSvgs :
         \E io \in SaveOutcomes(svg_list) :
            extract_all_svgs_from_page(svg_list, io)
    /\ pc' = "find"
    /\ UNCHANGED <<compVars, sessVars, inputVars, logged_in, result, bfsVars, repVars, drillVars,
                   bfsHist, drillHist, attempts>>

\* Variant of FilterB without `href not in queue`.
FilterB_NoQueueCheck(href, q, vis) ==
    /\ href # NoHref
    /\ Netloc(href) = Netloc(BaseUrl)
    /\ href \notin vis

\* Variant of FilterB without the host test.
FilterB_NoHostCheck(href, q, vis) ==
    /\ href # NoHref
    /\ href \notin vis
    /\ ~InSeq(href, q)

\* The enqueue test of Strategy B (line 549).
FilterB(href, q, vis) ==
    /\ href # NoHref
    /\ Netloc(href) = Netloc(BaseUrl)
    /\ href \notin vis
    /\ ~InSeq(href, q)

\* Variant of FilterC without `href not in visited`.
FilterC_NoVisitedCheck(href, q, vis, current_url) ==
    /\ href # NoHref
    /\ \/ HasMarker(href)
       \/ StartsWith(href, IF q # <<>> THEN q[1] ELSE current_url)
    /\ ~InSeq(href, q)

\* Variant of FilterC without the marker / prefix condition.
FilterC_NoPrefixCondition(href, q, vis, current_url) ==
    /\ href # NoHref
    /\ href \notin vis
    /\ ~InSeq(href, q)

\* The enqueue test of Strategy C (lines 624-630); driver.current_url is
\* the page just loaded.
FilterC(href, q, vis, current_url) ==
    /\ href # NoHref
    /\ \/ HasMarker(href)
       \/ StartsWith(href, IF q # <<>> THEN q[1] ELSE current_url)
    /\ href \notin vis
    /\ ~InSeq(href, q)

Filter(href, q, vis, current_url) ==
    IF strategy = "B" THEN FilterB(href, q, vis)
    ELSE FilterC(href, q, vis, current_url)

\* The body of the for loop over the links (lines 547-552 / 622-633) for
\* one link whose href attribute reads `href`: the queue after it.
EnqueueLink(href, q, vis, current_url) ==
    IF Filter(href, q, vis, current_url) THEN Append(q, href) ELSE q

\* Line 545 / 620: driver.find_elements(By.TAG_NAME, "a").  Raising ends
\* the visit in the handler of line 555 / 636: the page is not counted.
FindLinks ==
    /\ pc = "find"
    /\ \/ /\ \E n \in 0..MaxLinks : links_left' = n
          /\ pc' = "links"
          /\ last_failed' = FALSE
       \/ /\ OnVisitError
          /\ links_left' = 0
    /\ UNCHANGED <<compVars, sessVars, inputVars, logged_in, result, visited, queue, page_count, url,
                   storeVars, repVars, drillVars, navlog, enqlog, drillHist,
                   attempts>>

\* One iteration of the for loop: link.get_attribute("href") is read when
\* the iteration runs.  A raise inside it is caught at line 551 / 632 and,
\* like a missing href, enqueues nothing.
Link(href) ==
    /\ pc = "links"
    /\ links_left > 0
    /\ queue' = EnqueueLink(href, queue, visited, url)
    /\ enqlog' = IF queue' # queue THEN Append(enqlog, href) ELSE enqlog
    /\ links_left' = links_left - 1
    /\ UNCHANGED <<compVars, sessVars, inputVars, logged_in, pc, result, visited, page_count, url, storeVars,
                   repVars, drillVars, navlog, last_failed, drillHist, attempts>>

\* The link is any of those the page may hold.
LinkStep == \E href \in Hrefs : Link(href)

\* Lines 553-554 / 634-635: the page is counted once its links are done.
CountPage ==
    /\ pc = "links"
    /\ links_left = 0
    /\ page_count' = page_count + 1
    /\ pc' = "loop"
    /\ UNCHANGED <<compVars, sessVars, inputVars, logged_in, result, visited, queue, url, links_left,
                   storeVars, repVars, drillVars, bfsHist, drillHist, attempts>>

\* The loop is over: line 558 / 639.
LoopExit ==
    /\ pc = "loop"
    /\ strategy \in BfsStrategies
    /\ ~LoopCond
    /\ pc' = "report"
    /\ UNCHANGED <<compVars, sessVars, inputVars, logged_in, result, bfsVars, storeVars, repVars,
                   drillVars, bfsHist, drillHist, attempts>>

\* Variant of Report: the strategy returns True without save_crawl_log().
Report_NoSave ==
    /\ pc = "report"
    /\ Return("True")
    /\ UNCHANGED <<compVars, inputVars, logged_in, bfsVars, storeVars,
                   repVars, drillVars, bfsHist, drillHist, attempts>>

\* save_crawl_log() and return True.
Report ==
    /\ pc = "report"
    /\ \E ok \in BOOLEAN : save_crawl_log(ok)
    /\ Return("True")
    /\ UNCHANGED <<compVars, inputVars, logged_in, bfsVars, storeVars, drillVars,
                   bfsHist, drillHist, attempts>>

NextBfs ==
    \/ SetupDriver
    \/ Login
    \/ Seed
    \/ Pop
    \/ Navigate
    \/ ExtractPage
    \/ FindLinks
    \/ LinkStep
    \/ CountPage
    \/ LoopExit
    \/ Report

SpecBfs == InitBfs /\ [][NextBfs]_vars

(***************************************************************************)
(* Strategy A: run_sample_crawl, run_full_crawl and crawl_section.         *)
(***************************************************************************)
Min(a, b) == IF a <= b THEN a ELSE b

\* sections[:max_sections] in run_sample_crawl; run_full_crawl keeps all.
CapSections(n, cap) == IF cap = NoCap THEN n ELSE Min(n, cap)

\* if max_processes: process_links = process_links[:max_processes]
CapProcesses(n, cap) == IF cap # NoCap /\ cap # 0 THEN Min(n, cap) ELSE n

\* Lines 442-447 / 483-487: get_main_sections() finds n sections (none when
\* it raises inside); no section ends the run with False and no report.
GetMainSections ==
    /\ pc = "seed"
    /\ strategy \in DrillStrategies
    /\ \E n \in 0..MaxSectionsFound :
         IF n = 0
         THEN Return("False") /\ sections' = sections
         ELSE /\ sections' = CapSections(n, max_sections)
              /\ pc' = "section"
              /\ result' = result
              /\ UNCHANGED sessVars
    /\ sec_idx' = 0
    /\ UNCHANGED <<compVars, inputVars, logged_in, bfsVars, storeVars, repVars,
                   process_links, proc_idx, on_section, bfsHist, drillHist,
                   attempts>>

\* Line 450 / 490 and lines 392-395: the next section is clicked.  A raise
\* is caught at line 423: crawl_section returns False, which the caller
\* ignores.
ClickSection ==
    /\ pc = "section"
    /\ strategy \in DrillStrategies
    /\ sec_idx < sections
    /\ sec_idx' = sec_idx + 1
    /\ proc_clicks' = 0
    /\ \E ok \in BOOLEAN :
         IF ok
         THEN pc' = "overview" /\ sec_clicks' = sec_clicks + 1
              /\ on_section' = TRUE
         ELSE pc' = "section" /\ sec_clicks' = sec_clicks
              /\ on_section' = FALSE
    /\ UNCHANGED <<compVars, sessVars, inputVars, logged_in, result, bfsVars, storeVars, repVars,
                   sections, process_links, proc_idx, bfsHist, attempts>>

\* Lines 397-398: the overview page of the section is extracted
\* (driver.title raising leaves crawl_section through line 423).
SectionOverview ==
    /\ pc = "overview"
    /\ \/ /\ \E svg_list \in PageSvgs :
               \E io \in SaveOutcomes(svg_list) :
                  extract_all_svgs_from_page(svg_list, io)
          /\ attempts' = attempts + 1
          /\ pc' = "proclinks"
       \/ /\ pc' = "section"
          /\ UNCHANGED <<storeVars, attempts>>
    /\ UNCHANGED <<compVars, sessVars, inputVars, logged_in, result, bfsVars, repVars, drillVars,
                   bfsHist, drillHist>>

\* Lines 400-403: the process links of the section page, capped.
FindProcessLinks ==
    /\ pc = "proclinks"
    /\ \/ /\ \E n \in 0..MaxProcLinks :
               process_links' = CapProcesses(n, max_processes)
          /\ pc' = "process"
       \/ /\ pc' = "section"
          /\ process_links' = process_links
    /\ proc_idx' = 0
    /\ UNCHANGED <<compVars, sessVars, inputVars, logged_in, result, bfsVars, storeVars, repVars,
                   sections, sec_idx, on_section, bfsHist, drillHist,
                   attempts>>

\* Variant of OnProcessError: the handler gives up the whole crawl.
OnProcessError_Stop == pc' = "report"

\* Variant of OnProcessError: `break` in place of `continue`.
OnProcessError_Break == pc' = "section"

\* The handler of lines 419-421: print, then `continue` with the next link.
OnProcessError == pc' = "process"

\* Lines 404-408: the next process link is clicked; a raise (a stale
\* element, for one) is caught at line 419 and the loop continues.
ClickProcess ==
    /\ pc = "process"
    /\ proc_idx < process_links
    /\ proc_idx' = proc_idx + 1
    /\ \E ok \in BOOLEAN :
         IF ok
         THEN pc' = "procpage" /\ proc_clicks' = proc_clicks + 1
              /\ on_section' = FALSE
         ELSE OnProcessError /\ proc_clicks' = proc_clicks
              /\ on_section' = on_section
    /\ UNCHANGED <<compVars, sessVars, inputVars, logged_in, result, bfsVars, storeVars, repVars,
                   sections, sec_idx, process_links, bfsHist, sec_clicks,
                   attempts>>

\* Line 410: the process page is extracted (driver.title raising is caught
\* at line 419).
ProcessPage ==
    /\ pc = "procpage"
    /\ \/ /\ \E svg_list \in PageSvgs :
               \E io \in SaveOutcomes(svg_list) :
                  extract_all_svgs_from_page(svg_list, io)
          /\ attempts' = attempts + 1
          /\ pc' = "back"
       \/ /\ OnProcessError
          /\ UNCHANGED <<storeVars, attempts>>
    /\ UNCHANGED <<compVars, sessVars, inputVars, logged_in, result, bfsVars, repVars, drillVars,
                   bfsHist, drillHist>>

\* Lines 411-418: back, find the section again by its text, click it and
\* list its links again.  Any raise is caught at line 419.
BackToSection ==
    /\ pc = "back"
    /\ \E ok \in BOOLEAN : on_section' = ok
    /\ pc' = "process"
    /\ UNCHANGED <<compVars, sessVars, inputVars, logged_in, result, bfsVars, storeVars, repVars,
                   sections, sec_idx, process_links, proc_idx, bfsHist,
                   drillHist, attempts>>

\* Line 422: every link of the section is handled; crawl_section returns.
SectionDone ==
    /\ pc = "process"
    /\ proc_idx >= process_links
    /\ pc' = "section"
    /\ UNCHANGED <<compVars, sessVars, inputVars, logged_in, result, bfsVars, storeVars, repVars,
                   drillVars, bfsHist, drillHist, attempts>>

\* Line 454 / 495: the for loop over the sections is over.
SectionsDone ==
    /\ pc = "section"
    /\ strategy \in DrillStrategies
    /\ sec_idx >= sections
    /\ pc' = "report"
    /\ UNCHANGED <<compVars, sessVars, inputVars, logged_in, result, bfsVars, storeVars, repVars,
                   drillVars, bfsHist, drillHist, attempts>>

NextDrill ==
    \/ SetupDriver
    \/ Login
    \/ GetMainSections
    \/ ClickSection
    \/ SectionOverview
    \/ FindProcessLinks
    \/ ClickProcess
    \/ ProcessPage
    \/ BackToSection
    \/ SectionDone
    \/ SectionsDone
    \/ Report

SpecDrill == InitDrill /\ [][NextDrill]_vars

(***************************************************************************)
(* Any strategy: one call of one of the four strategy methods.             *)
(***************************************************************************)
Init == InitBfs \/ InitDrill

Next == NextBfs \/ NextDrill

Spec == Init /\ [][Next]_vars

\* The engine is one sequential thread and every driver call returns or
\* raises within its timeout: a strategy that can take a step takes it.
FairSpecBfs == SpecBfs /\ WF_vars(NextBfs)

(***************************************************************************)
(* Properties of Strategies B and C.                                       *)
(***************************************************************************)
\* The while loop has been left.
LoopEnded == pc = "report" \/ (pc = "done" /\ result = "True")

\* The page identity of the specification: the URL with its fragment
\* stripped.  The code has no such step: it compares the raw strings.
Normalize(u) == [u EXCEPT !.frag = ""]

\* C1: in Strategy B/C the Frontier never holds a URL twice and never holds
\* a URL that is in Visited; hence no URL is navigated twice in one run.
C1_NoDuplicateVisit ==
    /\ NoDup(queue)
    /\ \A i \in 1..Len(queue) : queue[i] \notin visited
    /\ NoDup(navlog)

C1_Witness ==
    /\ Len(queue) >= 2
    /\ Len(navlog) >= 2
    /\ pc = "links"
    /\ \E i \in 1..Len(navlog) : navlog[i] \in visited

\* C2 (as claimed): page identity is the URL with the fragment stripped, so
\* two links that differ only in their fragment never both enter the
\* Frontier and their page is never navigated twice.
C2_FragmentStrippedIdentity ==
    /\ \A i, j \in 1..Len(enqlog) :
          Normalize(enqlog[i]) = Normalize(enqlog[j]) => i = j
    /\ \A i, j \in 1..Len(navlog) :
          Normalize(navlog[i]) = Normalize(navlog[j]) => i = j

\* C3 (as claimed): the number of URLs marked Visited never exceeds
\* max_pages, also in runs in which page visits raise.
C3_VisitedWithinBudget == Cardinality(visited) <= max_pages

\* C4 (as claimed): the written report has total_processed =
\* len(processes) and extracted_count + failed_count <= total_processed.
C4_ReportInvariant ==
    report.written =>
        /\ report.total_processed = Len(report.processes)
        /\ report.extracted_count + report.failed_count
              <= report.total_processed

\* C6: when the visit of URL u raises, the loop goes on: u stays in
\* Visited, nothing is re-queued or counted, the next Frontier entry (if
\* any) is the URL popped and attempted next, and no URL is ever handed to
\* driver.get a second time.
VisitRaises == pc \in {"get", "find"} /\ last_failed'

C6_SkipAndContinue ==
    [][ /\ VisitRaises =>
            /\ pc' = "loop"
            /\ url \in visited'
            /\ queue' = queue
            /\ page_count' = page_count
        /\ (pc = "loop" /\ last_failed /\ queue # <<>>) =>
            /\ pc' = "get"
            /\ url' = Head(queue)
        /\ (pc = "get") =>
            /\ navlog' = Append(navlog, url)
            /\ ~InSeq(url, navlog)
      ]_vars

C6_Witness ==
    /\ pc = "get"
    /\ last_failed
    /\ navlog # <<>>
    /\ navlog[Len(navlog)] \in visited
    /\ url # navlog[Len(navlog)]

\* C7: URLs are navigated in exactly the order in which they were enqueued
\* (first in, first out).
C7_Fifo == navlog = SubSeq(enqlog, 1, Len(navlog))

C7_Witness ==
    /\ Len(navlog) >= 3
    /\ Len(enqlog) > Len(navlog)

\* C8 (as claimed): every run that has logged in ends with the report step
\* run and the strategy returned.  Its final-state part:
C8_LoggedInRunReports ==
    (pc = "done" /\ logged_in) => report_calls = 1

\* C8 (amended): once the Frontier is seeded, whatever the links and the
\* errors, the loop ends, save_crawl_log runs once and the strategy
\* returns True.
C8_SeededRunTerminates ==
    (pc = "loop") ~> (pc = "done" /\ result = "True" /\ report_calls = 1)

C8_Witness ==
    /\ pc = "done"
    /\ result = "True"
    /\ report_calls = 1
    /\ Len(navlog) >= 3
    /\ Len(navlog) > page_count

\* C9: when the loop ends with fewer than max_pages pages counted, the
\* Frontier is empty and every URL ever enqueued has been attempted.
C9_NoLostWork ==
    (LoopEnded /\ page_count < max_pages) =>
        /\ queue = <<>>
        /\ \A i \in 1..Len(enqlog) : InSeq(enqlog[i], navlog)

C9_Witness ==
    /\ LoopEnded
    /\ page_count < max_pages
    /\ page_count >= 1
    /\ Len(enqlog) >= 3

(***************************************************************************)
(* Properties of Strategy A.                                               *)
(***************************************************************************)
\* C5 (as claimed): in the drill-down strategies one LogEntry is appended
\* for each page on which extraction is attempted, so the report's
\* total_processed is the number of such pages.
C5_OneEntryPerPage ==
    /\ Len(process_log) = attempts
    /\ report.written => report.total_processed = attempts

\* C10 (as claimed): a run capped at max_sections = S >= 0 and
\* max_processes_per_section = P >= 0 activates at most S sections and, in
\* each section, at most P process links.
C10_CapsRespected ==
    strategy = "sample" =>
        /\ sec_clicks <= max_sections
        /\ proc_clicks <= max_processes

\* C11: in Strategy A an error on one process link or on one whole section
\* does not abort the run: the link loop of a section is left only after
\* every link of it was attempted, the section loop only after every
\* section was attempted, no traversal step ends the run, and the run ends
\* with save_crawl_log called and True returned.
DrillTraversal ==
    {"section", "overview", "proclinks", "process", "procpage", "back"}

C11_PartialFailureTolerant ==
    [][ /\ (pc \in {"process", "procpage", "back"} /\ pc' = "section") =>
            proc_idx = process_links
        /\ (pc \in DrillTraversal) => pc' \in DrillTraversal \cup {"report"}
        /\ (pc = "section" /\ pc' = "report") => sec_idx = sections
        /\ (pc = "report") =>
            /\ pc' = "done"
            /\ result' = "True"
            /\ report_calls' = report_calls + 1
      ]_vars

C11_Witness ==
    /\ pc = "done"
    /\ result = "True"
    /\ report_calls = 1
    /\ sec_idx = sections
    /\ sec_clicks < sec_idx
    /\ proc_idx = process_links
    /\ proc_clicks < proc_idx
    /\ attempts >= 2

(***************************************************************************)
(* Properties of every strategy.                                           *)
(***************************************************************************)
\* C12: when WebDriver setup or login fails, the strategy returns False
\* before any traversal: no page is visited, nothing is saved, no log entry
\* is appended and no report is written.
C12_NoSessionNoWork ==
    (pc = "done" /\ ~logged_in) =>
        /\ result = "False"
        /\ navlog = <<>> /\ enqlog = <<>> /\ visited = {}
        /\ sec_clicks = 0 /\ attempts = 0
        /\ extracted_count = 0 /\ failed_count = 0
        /\ process_log = <<>>
        /\ report_calls = 0 /\ ~report.written

C12_Witness == pc = "done" /\ ~logged_in /\ result = "False"

\* C13 (as claimed): every run that has logged in writes the run report
\* exactly once.
C13_LoggedInRunWritesReport ==
    (pc = "done" /\ logged_in) => (report_calls = 1 /\ report.written)

\* C13 (amended): save_crawl_log is called at most once, only as the last
\* step of a run (after all traversal), and exactly the runs that return
\* True have called it; the file is written unless that call's write fails.
C13_ReportOnceAtEnd ==
    /\ report_calls <= 1
    /\ report_calls = 1 => (pc = "done" /\ logged_in)
    /\ (pc = "done" /\ result = "True") <=> report_calls = 1
    /\ report.written => report_calls = 1

C13_Witness ==
    /\ pc = "done"
    /\ report_calls = 1
    /\ report.written
    /\ attempts + Len(navlog) >= 2

(***************************************************************************)
(* The components on their own: calls of save_svg_file,                    *)
(* extract_all_svgs_from_page, sanitize_filename and is_process_map_svg on *)
(* a fresh crawler, no strategy running.  `call` is the last call:         *)
(* [fn, n, ...], n the number of calls made.                               *)
(***************************************************************************)
InitComponent ==
    /\ strategy = "none"
    /\ max_pages = 0
    /\ max_sections = NoCap
    /\ max_processes = NoCap
    /\ pc = "idle"
    /\ InitObject

\* Everything a component call leaves alone.
idleVars == <<inputVars, pc, result, logged_in, bfsVars, process_log,
              repVars, drillVars, bfsHist, drillHist, attempts, exit_code,
              sessVars>>

\* Arguments of the calls.
Payloads == {MapSvg, DenseSvg}

Folders == {<<"Retail">>, <<"Retail", "Loans">>}

Filenames == {Str(<<"L", "o", "a", "n">>),
              Str(<<"L", "o", "a", "n", ".", "s", "v", "g">>),
              Str(<<"a", "/", "b">>)}

SaveSvgFile ==
    /\ pc = "idle"
    /\ call.n < MaxCalls
    /\ \E svg_content \in Payloads, section_path \in Folders,
          filename \in Filenames, io \in IoOutcomes :
          LET st == save_svg_file(Store, svg_content, section_path,
                                  filename, io)
          IN  /\ disk' = st.disk
              /\ saved' = st.saved
              /\ extracted_count' = st.extracted_count
              /\ failed_count' = st.failed_count
              /\ call' = [fn |-> "save_svg_file", n |-> call.n + 1,
                          svg_content |-> svg_content, io |-> io,
                          ret |-> st.ret]
    /\ UNCHANGED idleVars

InitStore == InitComponent /\ call = [fn |-> "none", n |-> 0]

SpecStore == InitStore /\ [][SaveSvgFile]_vars

\* One call of extract_all_svgs_from_page: the page shows svg_list.
ExtractAllSvgs ==
    /\ pc = "idle"
    /\ call.n < 1
    /\ \E svg_list \in SeqsUpTo(Fragments, MaxSvgs + 1),
          page_title \in Filenames, section_name \in {"Retail"},
          sub_section \in {NoSubSection, "Loans"} :
        \E io \in [1..Len(svg_list) -> IoOutcomes] :
          LET folder == IF sub_section = NoSubSection THEN <<section_name>>
                        ELSE <<section_name, sub_section>>
              filename == Concat(sanitize_filename(page_title), SvgExt)
              out == svg_loop([st |-> Store, classified |-> <<>>,
                               save_idx |-> <<>>],
                              svg_list, 1, folder, filename, io)
          IN  /\ disk' = out.st.disk
              /\ saved' = out.st.saved
              /\ extracted_count' = out.st.extracted_count
              /\ failed_count' = out.st.failed_count
              /\ call' = [fn |-> "extract_all_svgs_from_page",
                          n |-> call.n + 1, svg_list |-> svg_list,
                          classified |-> out.classified,
                          save_idx |-> out.save_idx]
    /\ UNCHANGED idleVars

SpecExtract == InitStore /\ [][ExtractAllSvgs]_vars

\* One call of sanitize_filename on any string of up to MaxRuns runs.
Alphabet == {"a", "/", "*", " ", "\n", ".", "_"}

RunLens == {1, 2, NameLimit - 1}

SanitizeInputs ==
    {s \in SeqsUpTo({Run(c, n) : c \in Alphabet, n \in RunLens}, MaxRuns) :
        s = Norm(s)}

InitSanitize ==
    /\ InitComponent
    /\ call \in {[fn |-> "sanitize_filename", n |-> 0, arg |-> a] :
                    a \in SanitizeInputs}

SanitizeFilename ==
    /\ pc = "idle"
    /\ call.fn = "sanitize_filename"
    /\ call.n = 0
    /\ call' = [fn |-> "sanitize_filename", n |-> 1, arg |-> call.arg,
                ret |-> sanitize_filename(call.arg)]
    /\ UNCHANGED <<idleVars, extracted_count, failed_count, disk, saved>>

SpecSanitize == InitSanitize /\ [][SanitizeFilename]_vars

\* One call of is_process_map_svg on any fragment around the thresholds.
Dims ==
    {Dim(0, "none")} \cup
    {DimF(n, t, u) : n \in {0} \cup ((MaxDim - 2)..MaxDim), t \in {0, 5},
                     u \in {"", "px", "em"}}

ClassifyInputs ==
    [parses : BOOLEAN, width : Dims, height : Dims,
     desc : {0} \cup ((MaxDesc - 2)..MaxDesc)]

InitClassify ==
    /\ InitComponent
    /\ call \in {[fn |-> "is_process_map_svg", n |-> 0, arg |-> a] :
                    a \in ClassifyInputs}

IsProcessMapSvg ==
    /\ pc = "idle"
    /\ call.fn = "is_process_map_svg"
    /\ call.n = 0
    /\ call' = [fn |-> "is_process_map_svg", n |-> 1, arg |-> call.arg,
                ret |-> is_process_map_svg(call.arg)]
    /\ UNCHANGED <<idleVars, extracted_count, failed_count, disk, saved>>

SpecClassify == InitClassify /\ [][IsProcessMapSvg]_vars

(***************************************************************************)
(* Properties of save_svg_file.                                            *)
(***************************************************************************)
\* C14: every call of save_svg_file returns and changes exactly one counter
\* by one: on success it returns the path of the file it wrote and
\* extracted_count grows by one, failed_count staying; on a failure it
\* returns None and failed_count grows by one, extracted_count staying.
C14_OneCounterPerSave ==
    [][ (call'.fn = "save_svg_file" /\ call'.n # call.n) =>
          \/ /\ call'.io = "ok"
             /\ call'.ret # None
             /\ call'.ret \in DOMAIN disk'
             /\ disk'[call'.ret] = <<call'.svg_content>>
             /\ extracted_count' = extracted_count + 1
             /\ failed_count' = failed_count
          \/ /\ call'.io # "ok"
             /\ call'.ret = None
             /\ failed_count' = failed_count + 1
             /\ extracted_count' = extracted_count
      ]_vars

C14_Witness ==
    /\ call.fn = "save_svg_file"
    /\ call.ret = None
    /\ extracted_count = 1
    /\ failed_count = 2

\* C15: after any sequence of successful saves every path written holds
\* one file whose content is exactly the payload of the last save to that
\* path.
C15_LastWriteWins ==
    failed_count = 0 =>
        /\ DOMAIN disk = DOMAIN saved
        /\ \A p \in DOMAIN disk : disk[p] = <<saved[p]>>

C15_Witness ==
    /\ failed_count = 0
    /\ extracted_count = 3
    /\ Cardinality(DOMAIN disk) = 2
    /\ \E p, q \in DOMAIN disk : disk[p] # disk[q]

(***************************************************************************)
(* Properties of sanitize_filename.                                        *)
(***************************************************************************)
\* C16: the result of sanitize_filename holds none of < > : " / \ | ? *,
\* no whitespace, and at most 200 characters.
C16_SafeAndShort ==
    (call.fn = "sanitize_filename" /\ call.n = 1) =>
        /\ ~HasChar(call.ret, Illegal \cup Whitespace)
        /\ StrLen(call.ret) <= 200

C16_Witness ==
    /\ call.fn = "sanitize_filename"
    /\ call.n = 1
    /\ HasChar(call.arg, Illegal)
    /\ StrLen(call.arg) > 200
    /\ StrLen(call.ret) = 200

\* C17: the result of sanitize_filename neither starts nor ends with an
\* underscore or a period.
C17_NoEdgeUnderscoreOrPeriod ==
    (call.fn = "sanitize_filename" /\ call.n = 1 /\ call.ret # <<>>) =>
        /\ call.ret[1].c \notin {".", "_"}
        /\ call.ret[Len(call.ret)].c \notin {".", "_"}

(***************************************************************************)
(* Properties of is_process_map_svg.                                       *)
(***************************************************************************)
\* The value an attribute denotes, in tenths; a missing attribute is 0.
Tenths(val) == IF val.unit = "none" THEN 0 ELSE 10 * val.num + val.tenths

\* C18: a fragment with at most 20 descendants of its root and width and
\* height both at most 300 is classified not wanted.
C18_SmallAndSparseNotWanted ==
    (/\ call.fn = "is_process_map_svg" /\ call.n = 1
     /\ call.arg.desc <= 20
     /\ Tenths(call.arg.width) <= 3000
     /\ Tenths(call.arg.height) <= 3000) => call.ret = FALSE

\* C19 (as claimed): a parseable fragment whose width attribute denotes a
\* value above 300, bare or followed by a unit, is classified wanted.
C19_WideAnyUnitWanted ==
    (/\ call.fn = "is_process_map_svg" /\ call.n = 1
     /\ call.arg.parses
     /\ Tenths(call.arg.width) > 3000) => call.ret = TRUE

\* C19 (amended): a parseable fragment whose width attribute is a number,
\* bare or followed by "px", with an integer part above 300 is classified
\* wanted, whatever its height and element count.
C19_WidePxWanted ==
    (/\ call.fn = "is_process_map_svg" /\ call.n = 1
     /\ call.arg.parses
     /\ call.arg.width.unit \in {"", "px"}
     /\ call.arg.width.num > 300) => call.ret = TRUE

C19_Witness ==
    /\ call.fn = "is_process_map_svg"
    /\ call.n = 1
    /\ call.arg.parses
    /\ call.arg.width = DimF(301, 5, "px")
    /\ call.arg.height = Dim(0, "none")
    /\ call.arg.desc = 0
    /\ call.ret = TRUE

\* C20: is_process_map_svg always answers: markup that does not parse is
\* not wanted, no save is made for it, and the fragments after it on the
\* page are still classified (and saved when wanted).
C20_BrokenFragmentSkipped ==
    call.fn = "extract_all_svgs_from_page" =>
        /\ Len(call.classified) = Len(call.svg_list)
        /\ \A i \in 1..Len(call.svg_list) :
              /\ ~call.svg_list[i].parses =>
                    (~call.classified[i] /\ ~InSeq(i, call.save_idx))
              /\ call.classified[i] <=> InSeq(i, call.save_idx)
        /\ extracted_count + failed_count = Len(call.save_idx)

C20_Witness ==
    /\ call.fn = "extract_all_svgs_from_page"
    /\ Len(call.svg_list) = 2
    /\ ~call.svg_list[1].parses
    /\ call.save_idx = <<2>>
    /\ extracted_count = 1

(***************************************************************************)
(* One call of parse_section_from_breadcrumb.  An item of the list is      *)
(* built from four pieces, each a tuple of characters: leading blanks, a   *)
(* number, a separator and a name; the argument is the list of the items'  *)
(* texts.                                                                  *)
(***************************************************************************)
Items ==
    [lead : {<<>>, <<" ">>},
     num  : {<<>>, <<"1", "5">>},
     sep  : {<<>>, <<".">>, <<".", " ">>},
     name : {<<"a", " ", "b">>,
             <<"4", " ", "P", "r", "o", "c", "e", "s", "s", "e", "s">>}]

\* The characters of an item, and its text.
Chars(e) == e.lead \o e.num \o e.sep \o e.name

Text(e) == Str(Chars(e))

InitResolve ==
    /\ InitComponent
    /\ call \in {[fn |-> "parse_section_from_breadcrumb", n |-> 0,
                  src |-> b, arg |-> [i \in DOMAIN b |-> Text(b[i])]] :
                    b \in SeqsUpTo(Items, MaxCrumbs)}

ParseSection ==
    /\ pc = "idle"
    /\ call.fn = "parse_section_from_breadcrumb"
    /\ call.n = 0
    /\ call' = [fn |-> "parse_section_from_breadcrumb", n |-> 1,
                src |-> call.src, arg |-> call.arg,
                ret |-> parse_section_from_breadcrumb(call.arg)]
    /\ UNCHANGED <<idleVars, extracted_count, failed_count, disk, saved>>

SpecResolve == InitResolve /\ [][ParseSection]_vars

(***************************************************************************)
(* Properties of parse_section_from_breadcrumb, stated on the pieces the   *)
(* items were built from.                                                  *)
(***************************************************************************)
\* The item reads '<digits>. <name>': a number, a period, whitespace, a name.
IsNumbered(e) ==
    /\ e.num # <<>>
    /\ Len(e.sep) >= 2
    /\ e.sep[1] = "."
    /\ \A i \in 2..Len(e.sep) : e.sep[i] \in Whitespace
    /\ e.name # <<>>

\* The characters cs with each space turned into an underscore.
Underscored(cs) == [i \in DOMAIN cs |-> IF cs[i] = " " THEN "_" ELSE cs[i]]

IsPeriod(c) == c = "."

NotPeriod(c) == ~IsPeriod(c)

\* The first digit sequence among the characters cs.
RECURSIVE FirstDigits(_, _)
FirstDigits(cs, started) ==
    IF cs = <<>> THEN <<>>
    ELSE IF Head(cs) \in Digits
         THEN <<Head(cs)>> \o FirstDigits(Tail(cs), TRUE)
         ELSE IF started THEN <<>> ELSE FirstDigits(Tail(cs), FALSE)

Returned == call.fn = "parse_section_from_breadcrumb" /\ call.n = 1

\* C21: with two or more items of which one reads '<digits>. <name>', the
\* section is '<digits>_<name, spaces as underscores>' of the leftmost such
\* item, wherever it stands; '15.4 Processes' is no such item.
C21_LeftmostNumberedLabel ==
    (Returned /\ Len(call.src) >= 2) =>
        \A i \in DOMAIN call.src :
            (/\ IsNumbered(call.src[i])
             /\ \A j \in 1..(i - 1) : ~IsNumbered(call.src[j]))
            => call.ret[1] = Str(call.src[i].num \o <<"_">>
                                 \o Underscored(call.src[i].name))

C21_Witness ==
    /\ Returned
    /\ Len(call.src) = 3
    /\ call.src[1].sep = <<".">> /\ call.src[1].num # <<>>
    /\ call.src[1].name[1] = "4"
    /\ IsNumbered(call.src[2]) /\ call.src[2].lead # <<>>
    /\ IsNumbered(call.src[3])
    /\ call.src[3].name # call.src[2].name
    /\ call.ret[1] = Str(<<"1", "5", "_", "a", "_", "b">>)

\* C22: a list of fewer than two items, even a single numbered label,
\* gives section "Library" and no section name.
C22_ShortBreadcrumbIsLibrary ==
    (Returned /\ Len(call.src) < 2) =>
        call.ret = <<Library, NoSectionName>>

C22_Witness ==
    /\ Returned
    /\ Len(call.src) = 1
    /\ IsNumbered(call.src[1])
    /\ call.ret[1] = Library

\* C23: with two or more items and no numbered label among them, the
\* section comes from the second item alone: its text with spaces as
\* underscores and periods removed, preceded by '<first digit sequence>_'
\* when the text holds "Processes" and a digit.
C23_FallbackSecondItem ==
    (/\ Returned
     /\ Len(call.src) >= 2
     /\ \A i \in DOMAIN call.src : ~IsNumbered(call.src[i])) =>
        LET cs == Chars(call.src[2])
            clean == SelectSeq(Underscored(cs), NotPeriod)
            digits == FirstDigits(cs, FALSE)
            processes == \E k \in 0..(Len(cs) - 9) :
                            SubSeq(cs, k + 1, k + 9) =
                                <<"P", "r", "o", "c", "e", "s", "s", "e", "s">>
        IN  call.ret[1] = IF processes /\ digits # <<>>
                          THEN Str(digits \o <<"_">> \o clean)
                          ELSE Str(clean)

C23_Witness ==
    /\ Returned
    /\ Len(call.src) = 2
    /\ call.src[1].name[1] = "4"
    /\ call.src[2] = [lead |-> <<>>, num |-> <<"1", "5">>, sep |-> <<".">>,
                      name |-> <<"4", " ", "P", "r", "o", "c", "e", "s", "s",
                                 "e", "s">>]
    /\ call.ret[1] = Str(<<"1", "5", "_", "1", "5", "4", "_", "P", "r", "o",
                           "c", "e", "s", "s", "e", "s">>)

(***************************************************************************)
(* One page visit of crawl_library_recursively, lines 612-618: the title   *)
(* and the breadcrumb are read and the page is extracted.                  *)
(***************************************************************************)
\* Texts of the breadcrumb elements (stripped and non-empty, line 615).
CrumbTexts ==
    {Library,
     Str(<<"1", "5", ".", " ", "a", " ", "b">>),
     Str(<<"4", " ", "P", "r", "o", "c", "e", "s", "s", "e", "s">>),
     Str(<<".", ".">>),
     Str(<<"a", "/", ".", ".", "/", "b">>),
     Str(<<"/", "t", "m", "p">>)}

LibraryPage ==
    /\ pc = "idle"
    /\ call.n < 1
    /\ \E breadcrumb \in SeqsUpTo(CrumbTexts, MaxCrumbs),
          page_title \in Filenames,
          svg_list \in SeqsUpTo(Fragments, MaxSvgs) :
        \E io \in [1..Len(svg_list) -> IoOutcomes] :
          LET section == IF Len(breadcrumb) > 1 THEN breadcrumb[2]
                         ELSE Library
              \* <<>>: no sub-section (None is falsy at line 290)
              sub_section == IF Len(breadcrumb) > 2 THEN breadcrumb[3]
                             ELSE <<>>
              folder == IF sub_section = <<>> THEN <<section>>
                        ELSE <<section, sub_section>>
              filename == Concat(sanitize_filename(page_title), SvgExt)
              out == svg_loop([st |-> Store, classified |-> <<>>,
                               save_idx |-> <<>>],
                              svg_list, 1, folder, filename, io)
          IN  /\ disk' = out.st.disk
              /\ saved' = out.st.saved
              /\ extracted_count' = out.st.extracted_count
              /\ failed_count' = out.st.failed_count
              /\ call' = [fn |-> "crawl_library_recursively",
                          n |-> call.n + 1, breadcrumb |-> breadcrumb,
                          page_title |-> page_title]
    /\ UNCHANGED idleVars

SpecLibraryPage == InitStore /\ [][LibraryPage]_vars

\* C25: in Strategy C the artifacts of a page are stored in the folder
\* parse_section_from_breadcrumb gives for the page's breadcrumb, under the
\* sanitized page title.
C25_FolderFromResolver ==
    call.fn = "crawl_library_recursively" =>
        \A p \in DOMAIN disk :
            /\ p.dir[1] = parse_section_from_breadcrumb(call.breadcrumb)[1]
            /\ p.name = Concat(sanitize_filename(call.page_title), SvgExt)

(***************************************************************************)
(* The link loop of the first page of crawl_library_recursively (lines     *)
(* 620-633): the seed has been popped and loaded, the page holds no SVG.   *)
(***************************************************************************)
PageHrefs == Hrefs \cup {AboutTeam}

InitFirstPage ==
    /\ strategy = "C"
    /\ max_pages \in 1..MaxPagesBound
    /\ max_sections = NoCap
    /\ max_processes = NoCap
    /\ pc = "links"
    /\ call = NoCall
    /\ result = "running"
    /\ logged_in = TRUE
    /\ \E s \in SeedUrls :
         /\ url = s
         /\ visited = {s}
         /\ navlog = <<s>>
         /\ enqlog = <<s>>
    /\ queue = <<>>
    /\ page_count = 0
    /\ links_left \in 0..MaxPageLinks
    /\ extracted_count = 0
    /\ failed_count = 0
    /\ process_log = <<>>
    /\ report = NoReport
    /\ report_calls = 0
    /\ sections = 0
    /\ sec_idx = 0
    /\ process_links = 0
    /\ proc_idx = 0
    /\ on_section = FALSE
    /\ last_failed = FALSE
    /\ sec_clicks = 0
    /\ proc_clicks = 0
    /\ attempts = 0
    /\ disk = <<>>
    /\ saved = <<>>
    /\ exit_code = NoExit
    /\ driver = "open"
    /\ quit_calls = 0

FirstPageLink == \E href \in PageHrefs : Link(href)

SpecFirstPage == InitFirstPage /\ [][FirstPageLink]_vars

(***************************************************************************)
(* The enqueue filters of the breadth-first strategies.                    *)
(***************************************************************************)
\* The link a step has just put on the queue.
Enqueued == enqlog'[Len(enqlog')]

\* A step of the link loop that enqueues.
Enqueues == enqlog # <<>> /\ Len(enqlog') > Len(enqlog)

\* C26: in Strategy C every URL enqueued after the seed has the host of the
\* base URL.
C26_SameHostInC ==
    strategy = "C" =>
        \A i \in 2..Len(enqlog) : Netloc(enqlog[i]) = Netloc(BaseUrl)

\* C27 as stated: in Strategy C a link is enqueued only if it has a library
\* or content marker or starts with the most recently enqueued URL.
C27_PrefixOfLastEnqueued ==
    [][(strategy = "C" /\ Enqueues) =>
          \/ HasMarker(Enqueued)
          \/ StartsWith(Enqueued, enqlog[Len(enqlog)])]_vars

\* C27 amended: in Strategy C a link is enqueued only if it has a library
\* or content marker or starts with the URL at the head of the queue (the
\* URL of the current page when the queue is empty).
C27_PrefixOfQueueHead ==
    [][(strategy = "C" /\ Enqueues) =>
          \/ HasMarker(Enqueued)
          \/ StartsWith(Enqueued, IF queue # <<>> THEN queue[1] ELSE url)]_vars

C27_Witness ==
    /\ strategy = "C"
    /\ \E i \in 2..Len(enqlog) : ~HasMarker(enqlog[i])

\* C30: in Strategy B every URL enqueued after the seed has an href on the
\* host of the base URL and was, when enqueued, neither visited nor queued.
C30_EnqueueFilterB ==
    [][(strategy = "B" /\ Enqueues) =>
          /\ Enqueued # NoHref
          /\ Enqueued.host = BaseHost
          /\ Enqueued \notin visited
          /\ \A i \in 1..Len(queue) : queue[i] # Enqueued]_vars

C30_Witness ==
    /\ strategy = "B"
    /\ pc = "links"
    /\ Len(enqlog) >= 2
    /\ InSeq(enqlog[Len(enqlog)], queue)

(***************************************************************************)
(* The command line: main() and the `if __name__ == "__main__"` block      *)
(* (lines 668-710).                                                        *)
(***************************************************************************)
\* Lines 691-697: --mode selects run_sample_crawl (with --max-sections and
\* --max-processes), run_full_crawl or crawl_library_recursively (with its
\* default max_pages, which MaxPagesBound stands for).
InitMain ==
    \/ InitDrill
    \/ /\ InitBfs
       /\ strategy = "C"
       /\ max_pages = MaxPagesBound

\* Lines 702-710: main() prints the outcome and returns `success`; line 710
\* calls main() and drops the value, so the interpreter ends with status 0.
ProcessExit ==
    /\ pc = "done"
    /\ pc' = "exited"
    /\ exit_code' = 0
    /\ UNCHANGED <<inputVars, result, logged_in, bfsVars, storeVars, repVars,
                   drillVars, bfsHist, drillHist, attempts, disk, saved, call,
                   sessVars>>

NextMain == Next \/ ProcessExit

SpecMain == InitMain /\ [][NextMain]_vars

\* C28: the process exits with code 0 when the strategy returned success
\* and with code 1 when it returned failure.
C28_ExitCodeReflectsResult ==
    pc = "exited" =>
        /\ result = "True" => exit_code = 0
        /\ result = "False" => exit_code = 1

(***************************************************************************)
(* Failing visits of the drill-down strategies.                            *)
(***************************************************************************)
\* A step in which the visit of a process link fails: the click raises, or
\* the landed page cannot be read.
ProcessVisitFails ==
    \/ pc = "process" /\ proc_idx' = proc_idx + 1 /\ proc_clicks' = proc_clicks
    \/ pc = "procpage" /\ attempts' = attempts

\* A step in which the visit of a section fails: the click raises, or the
\* overview page cannot be read.
SectionVisitFails ==
    \/ pc = "section" /\ sec_idx' = sec_idx + 1 /\ sec_clicks' = sec_clicks
    \/ pc = "overview" /\ attempts' = attempts

\* The run log, the counters, the report and the result are as before
\* the step.
Untouched == <<storeVars, repVars, result>>

ActivatesLink == pc = "process" /\ proc_idx' = proc_idx + 1

\* C31: in the drill-down strategies a process link is clicked only while
\* the browser shows the section page, after a handled page as after a
\* failed one.
C31_ClickedOnSectionPage ==
    [][(strategy \in DrillStrategies /\ ActivatesLink) => on_section]_vars

(***************************************************************************)
(* One call of extract_svg_from_page on any page around the threshold.     *)
(***************************************************************************)
Sizes == (SizeThreshold - 1)..(SizeThreshold + 2)

InitLargest ==
    /\ InitComponent
    /\ call \in {[fn |-> "extract_svg_from_page", n |-> 0, sizes |-> z,
                  raises |-> r] :
                    z \in SeqsUpTo(Sizes, MaxFrags), r \in BOOLEAN}

ExtractSvgFromPage ==
    /\ pc = "idle"
    /\ call.fn = "extract_svg_from_page"
    /\ call.n = 0
    /\ call' = [fn |-> "extract_svg_from_page", n |-> 1,
                sizes |-> call.sizes, raises |-> call.raises,
                ret |-> extract_svg_from_page(call.sizes, call.raises)]
    /\ UNCHANGED <<idleVars, extracted_count, failed_count, disk, saved>>

SpecLargest == InitLargest /\ [][ExtractSvgFromPage]_vars

\* The first fragment of the largest size on the page is i.
FirstLargest(sizes, i) ==
    /\ i \in DOMAIN sizes
    /\ \A j \in DOMAIN sizes : sizes[j] <= sizes[i]
    /\ \A j \in 1..(i - 1) : sizes[j] < sizes[i]

\* C32: extract_svg_from_page returns the first fragment of the largest
\* size when that size is above 1000 and the script did not raise, and
\* nothing in every other case.
C32_LargestAboveThreshold ==
    (call.fn = "extract_svg_from_page" /\ call.n = 1) =>
        IF /\ ~call.raises
           /\ \E i \in DOMAIN call.sizes : call.sizes[i] > 1000
        THEN FirstLargest(call.sizes, call.ret)
        ELSE call.ret = NoFragment

C32_Witness ==
    /\ call.fn = "extract_svg_from_page"
    /\ call.n = 1
    /\ call.ret = 2
    /\ Len(call.sizes) = 3
    /\ call.sizes[3] = call.sizes[2]
    /\ call.sizes[1] = 1000

(***************************************************************************)
(* Counters and files.                                                     *)
(***************************************************************************)
\* The artifact files on disk: the paths that hold a payload.
ArtifactFiles == {p \in DOMAIN disk : disk[p] # <<>>}

\* C33: after a page is extracted, extracted_count is the number of artifact
\* files on disk, also when the page holds several wanted fragments.
C33_CountIsFileCount ==
    call.fn = "extract_all_svgs_from_page" =>
        extracted_count = Cardinality(ArtifactFiles)

\* C34: every file written for a page of Strategy C lies in a directory
\* inside output_dir, whatever the breadcrumb labels are.
C34_FilesInsideOutputDir ==
    call.fn = "crawl_library_recursively" =>
        \A p \in DOMAIN disk : ~section_dir(OutputDir, p.dir).outside

(***************************************************************************)
(* The `if url in visited: continue` branch of the breadth-first loops.    *)
(***************************************************************************)
\* A step that pops the queue (line 534 / 605).
Pops == pc = "loop" /\ queue # <<>> /\ queue' = Tail(queue)

\* C35: in Strategy B/C the popped URL is never in Visited already: every
\* pop goes on to load the URL, the skip branch is never taken.
C35_SkipBranchNeverTaken ==
    [][(strategy \in BfsStrategies /\ Pops) =>
          /\ queue[1] \notin visited
          /\ pc' = "get"
          /\ visited' = visited \cup {queue[1]}]_vars

C35_Witness ==
    /\ strategy \in BfsStrategies
    /\ pc = "get"
    /\ Cardinality(visited) = 2
    /\ queue # <<>>
    /\ Len(enqlog) = 3

(***************************************************************************)
(* The browser session.                                                    *)
(***************************************************************************)
\* C36: when a strategy has returned and the WebDriver had been created,
\* quit() has been called exactly once, whatever the exit path; it is never
\* called twice, and never while the strategy is still running.
C36_QuitOnceOnEveryExit ==
    /\ quit_calls <= 1
    /\ (pc = "done" /\ driver # "None") => (quit_calls = 1 /\ driver = "quit")
    /\ (pc \notin {"done", "exited"}) => quit_calls = 0
    /\ (pc \notin {"setup", "done", "exited"}) => driver = "open"

\* A run that ended by the `no sections found` return, the session quit.
C36_Witness ==
    /\ pc = "done"
    /\ strategy \in DrillStrategies
    /\ logged_in
    /\ result = "False"
    /\ quit_calls = 1

(***************************************************************************)
(* What changes the counters.                                              *)
(***************************************************************************)
Counters == <<extracted_count, failed_count>>

\* The positions from which extract_all_svgs_from_page is called.
ExtractPositions == {"extract", "overview", "procpage"}

\* C37: the counters never decrease and change only in a step that runs
\* extract_all_svgs_from_page (hence save_svg_file); failed navigation,
\* failed visits, link discovery and the report leave them alone, the run
\* log is changed by no step, and a drill-down run without an extracted
\* page has both counters at 0.
C37_CountersFrame ==
    [][ /\ extracted_count' >= extracted_count
        /\ failed_count' >= failed_count
        /\ process_log' = process_log
        /\ (pc \notin ExtractPositions) => Counters' = Counters
        /\ (VisitRaises \/ ProcessVisitFails \/ SectionVisitFails) =>
              Counters' = Counters
        /\ (strategy \in DrillStrategies /\ attempts' = 0) =>
              Counters' = <<0, 0>>
      ]_vars

C37_Witness ==
    /\ strategy \in BfsStrategies
    /\ last_failed
    /\ Len(navlog) = 2
    /\ extracted_count + failed_count = 1
    /\ pc = "report"

(***************************************************************************)
(* One call of crawl_process_page (lines 335-387) on a fresh crawler.      *)
(***************************************************************************)
SectionTitles == {Str(<<"R", "e", "t", "a", "i", "l">>)}

CrawlProcessPage ==
    /\ pc = "idle"
    /\ call.n < 1
    /\ \E sizes \in SeqsUpTo(Sizes, MaxFrags), raises \in BOOLEAN,
          title \in SectionTitles, page_title \in Filenames,
          io \in IoOutcomes, page_ok \in BOOLEAN :
          LET svg_content == extract_svg_from_page(sizes, raises)
              section_name == sanitize_filename(title)
              filename == sanitize_filename(page_title)
              st == save_svg_file(Store, [fragment |-> svg_content],
                                  <<section_name>>, filename, io)
          IN  /\ call' = [fn |-> "crawl_process_page", n |-> call.n + 1,
                          sizes |-> sizes, io |-> io]
              /\ IF ~page_ok
                 \* driver.current_url / driver.title raises: lines 385-387
                 THEN UNCHANGED <<disk, saved, storeVars>>
                 ELSE IF svg_content # NoFragment
                 THEN /\ disk' = st.disk
                      /\ saved' = st.saved
                      /\ extracted_count' = st.extracted_count
                      /\ failed_count' = st.failed_count
                      /\ process_log' = Append(process_log,
                            [file_path |-> st.ret,
                             svg_size |-> sizes[svg_content],
                             status |-> "success"])
                 ELSE /\ process_log' = Append(process_log,
                            [file_path |-> None, svg_size |-> 0,
                             status |-> "no_svg"])
                      /\ UNCHANGED <<disk, saved, extracted_count,
                                     failed_count>>
    /\ UNCHANGED <<inputVars, pc, result, logged_in, bfsVars, repVars,
                   drillVars, bfsHist, drillHist, attempts, exit_code,
                   sessVars>>

SpecProcessPage == InitStore /\ [][CrawlProcessPage]_vars

\* C38: every entry of the run log with status 'success' names a file that
\* was written, and every entry with status 'no_svg' has no file_path and
\* svg_size 0.
C38_SuccessEntryNamesFile ==
    \A i \in 1..Len(process_log) :
        /\ process_log[i].status = "success" =>
              /\ process_log[i].file_path # None
              /\ process_log[i].file_path \in DOMAIN disk
              /\ disk[process_log[i].file_path] # <<>>
        /\ process_log[i].status = "no_svg" =>
              /\ process_log[i].file_path = None
              /\ process_log[i].svg_size = 0

\* C39: sanitize_filename is idempotent: sanitizing its result again gives
\* the same string.
C39_SanitizeIdempotent ==
    (call.fn = "sanitize_filename" /\ call.n = 1) =>
        sanitize_filename(call.ret) = call.ret

====
